---- MODULE Spec2Model ----
(***************************************************************************)
(* nc-news API: the article handlers of controllers/articles-controllers.js *)
(* together with the data-access layer, the comment routes and the error    *)
(* translator they call.  The handlers are translated from the controller   *)
(* source; the data-access functions (models/articles-models), the comment  *)
(* routes and the error translator are not part of the available source and *)
(* are modelled from the specification (sections 4.1 - 4.8, 5 and 7).       *)
(*                                                                          *)
(* A request slot is one HTTP request in flight.  Every await of the        *)
(* handlers is one store round trip; the store executes each round trip     *)
(* atomically and requests interleave between round trips.                  *)
(***************************************************************************)
EXTENDS Integers, Sequences, FiniteSets, TLC

VARIABLES articles, comments, pc, req, local, res

vars == <<articles, comments, pc, req, local, res>>

----------------------------------------------------------------------------
(* Bounds of the model *)

\* number of HTTP requests issued over a run
MaxReqs == 2

Reqs == 1..MaxReqs

----------------------------------------------------------------------------
(* JavaScript values of request bodies and query strings *)

Undefined == [t |-> "undefined"]
Num(n) == [t |-> "number", n |-> n, half |-> 0]
\* the non-integer number n + 0.5
NumHalf(n) == [t |-> "number", n |-> n, half |-> 1]
Str(s) == [t |-> "string", s |-> s]

\* property read obj.key: undefined when the object has no such key
Get(obj, key) == IF key \in DOMAIN obj THEN obj[key] ELSE Undefined

IsInteger(v) == v.t = "number" /\ v.half = 0
IsString(v) == v.t = "string"
IsMissing(v) == v.t = "undefined"

----------------------------------------------------------------------------
(* Text: identifiers arrive as strings (sequences of characters) *)

Digits == <<"0", "1", "2", "3", "4", "5", "6", "7", "8", "9">>

IsDigit(c) == \E i \in 1..10 : Digits[i] = c

DigitValue(c) == (CHOOSE i \in 1..10 : Digits[i] = c) - 1

RECURSIVE ParseInt(_)
ParseInt(s) ==
  IF s = <<>> THEN 0
  ELSE 10 * ParseInt(SubSeq(s, 1, Len(s) - 1)) + DigitValue(s[Len(s)])

\* decimal text of a natural number, as the store renders an aggregate
RECURSIVE ToText(_)
ToText(n) ==
  IF n < 10 THEN <<Digits[n + 1]>>
  ELSE ToText(n \div 10) \o <<Digits[(n % 10) + 1]>>

----------------------------------------------------------------------------
(* 4.1 Validation utilities *)

isValidId(value) ==
  /\ Len(value) > 0
  /\ \A i \in 1..Len(value) : IsDigit(value[i])
  /\ ParseInt(value) > 0

SortColumns ==
  {"created_at", "votes", "title", "topic", "author", "comment_count", "article_id"}

isAllowedSortColumn(name) == name \in SortColumns

\* order tokens are accepted case-insensitively
LowerCase(s) ==
  CASE s = "ASC" -> "asc"
    [] s = "DESC" -> "desc"
    [] OTHER -> s

isAllowedOrder(value) == LowerCase(value) \in {"asc", "desc"}

\* a typed failure, consumed by the error translator
Failure(kind, what) == [ok |-> FALSE, kind |-> kind, what |-> what]
Success(value) == [ok |-> TRUE, value |-> value]

\* a wrong-typed field is reported as a missing one
validateCommentPayloadOneKind(payload) ==
  LET username == Get(payload, "username")
      body == Get(payload, "body")
  IN  IF ~IsString(username) \/ ~IsString(body)
        THEN Failure("InvalidPostInput", "comment")
      ELSE Success([author |-> username.s, body |-> body.s])

validateCommentPayload(payload) ==
  LET username == Get(payload, "username")
      body == Get(payload, "body")
  IN  IF IsMissing(username) \/ IsMissing(body)
        THEN Failure("InvalidPostInput", "comment")
      ELSE IF ~IsString(username) \/ ~IsString(body)
        THEN Failure("InvalidPostDataType", "comment")
      ELSE Success([author |-> username.s, body |-> body.s])

----------------------------------------------------------------------------
(* 3. The store: topics (read-only), articles and comments.  Rows are kept  *)
(* in insertion order, so a row's position is its serial identifier.        *)

TopicSlugs == {"cats", "mitch", "paper"}

SeedArticles ==
  << [article_id |-> 1, title |-> "Living", topic |-> "mitch",
      author |-> "butter_bridge", body |-> "text", created_at |-> 1, votes |-> 1],
     [article_id |-> 2, title |-> "Among", topic |-> "cats",
      author |-> "rogersop", body |-> "text", created_at |-> 1, votes |-> 0] >>

SeedComments ==
  << [comment_id |-> 1, body |-> "text", article_id |-> 1,
      author |-> "icellusedkars", votes |-> 0, created_at |-> 1] >>

Max(S) == CHOOSE x \in S : \A y \in S : y <= x

\* the store clock never runs backwards: a new row is stamped no earlier
\* than every row already stored
Latest(arts, cmts) ==
  Max({0} \cup {arts[i].created_at : i \in 1..Len(arts)}
          \cup {cmts[i].created_at : i \in 1..Len(cmts)})

\* the timestamps an insert can be stamped with: the clock has not moved since
\* the latest row, or it has
Clock(arts, cmts) == {Latest(arts, cmts), Latest(arts, cmts) + 1}

ArticleExists(arts, n) == n \in 1..Len(arts)

\* aggregate comment count of an article, computed at query time
CommentCount(cmts, n) == Cardinality({i \in 1..Len(cmts) : cmts[i].article_id = n})

\* the count as the store driver returns it: text, not a number
WithCommentCount(row, cmts) ==
  [article_id |-> row.article_id, title |-> row.title, topic |-> row.topic,
   author |-> row.author, body |-> row.body, created_at |-> row.created_at,
   votes |-> row.votes, comment_count |-> ToText(CommentCount(cmts, row.article_id))]

\* collation of the text values that occur in the model
Collation ==
  << "Among", "Living", "New", "butter_bridge", "cats", "icellusedkars",
     "mitch", "paper", "rogersop", "text" >>

Rank(s) == CHOOSE i \in 1..Len(Collation) : Collation[i] = s

SortKey(row, column) ==
  CASE column = "created_at" -> row.created_at
    [] column = "votes" -> row.votes
    [] column = "article_id" -> row.article_id
    [] column = "comment_count" -> ParseInt(row.comment_count)
    [] column = "title" -> Rank(row.title)
    [] column = "topic" -> Rank(row.topic)
    [] column = "author" -> Rank(row.author)

\* ORDER BY column direction, article_id
Precedes(a, b, column, direction) ==
  LET ka == SortKey(a, column)
      kb == SortKey(b, column)
  IN  IF ka /= kb
        THEN IF direction = "asc" THEN ka < kb ELSE ka > kb
        ELSE a.article_id < b.article_id

RECURSIVE OrderBy(_, _, _)
OrderBy(rows, column, direction) ==
  IF rows = {} THEN <<>>
  ELSE LET first == CHOOSE a \in rows :
                      \A b \in rows \ {a} : Precedes(a, b, column, direction)
       IN  <<first>> \o OrderBy(rows \ {first}, column, direction)

----------------------------------------------------------------------------
(* 4.2 - 4.7 Data-access functions.  Each validates its inputs before any   *)
(* query runs and returns a value or a typed failure.                       *)

fetchAllArticles(arts, cmts, sort, order, topic) ==
  LET column == IF IsMissing(sort) THEN "created_at" ELSE sort.s
      direction == IF IsMissing(order) THEN "desc" ELSE LowerCase(order.s)
      wanted == {i \in 1..Len(arts) : IsMissing(topic) \/ arts[i].topic = topic.s}
  IN  IF ~isAllowedSortColumn(column) \/ ~isAllowedOrder(direction)
        THEN Failure("InvalidInput", "query")
      ELSE IF ~IsMissing(topic) /\ topic.s \notin TopicSlugs
        THEN Failure("NotFound", "Topic")
      ELSE Success(OrderBy({WithCommentCount(arts[i], cmts) : i \in wanted},
                           column, direction))

fetchArticle(arts, cmts, id) ==
  IF ~isValidId(id) THEN Failure("InvalidInput", "article_id")
  ELSE IF ~ArticleExists(arts, ParseInt(id)) THEN Failure("NotFound", "Article")
  ELSE Success(WithCommentCount(arts[ParseInt(id)], cmts))

\* UPDATE articles SET votes = votes + number WHERE article_id = id RETURNING *:
\* one atomic store operation; rows is the table after it
updateArticleById(arts, id, number) ==
  IF ~isValidId(id) \/ ~IsInteger(number)
    THEN [result |-> Failure("InvalidInput", "article_id"), rows |-> arts]
  ELSE IF ~ArticleExists(arts, ParseInt(id))
    THEN [result |-> Failure("NotFound", "Article"), rows |-> arts]
  ELSE LET n == ParseInt(id)
           updated == [arts[n] EXCEPT !.votes = @ + number.n]
       IN  [result |-> Success(updated), rows |-> [arts EXCEPT ![n] = updated]]

\* an empty result is taken for a missing article
fetchCommentsByArticleIdNoRows(arts, cmts, id) ==
  IF ~isValidId(id) THEN Failure("InvalidInput", "article_id")
  ELSE IF SelectSeq(cmts, LAMBDA c : c.article_id = ParseInt(id)) = <<>>
    THEN Failure("NotFound", "Article")
  ELSE Success(SelectSeq(cmts, LAMBDA c : c.article_id = ParseInt(id)))

fetchCommentsByArticleId(arts, cmts, id) ==
  IF ~isValidId(id) THEN Failure("InvalidInput", "article_id")
  ELSE IF ~ArticleExists(arts, ParseInt(id)) THEN Failure("NotFound", "Article")
  ELSE Success(SelectSeq(cmts, LAMBDA c : c.article_id = ParseInt(id)))

\* INSERT INTO comments ... RETURNING *, stamped now
createComment(arts, cmts, id, payload, now) ==
  LET checked == validateCommentPayload(payload)
  IN  IF ~isValidId(id)
        THEN [result |-> Failure("InvalidInput", "article_id"), rows |-> cmts]
      ELSE IF ~checked.ok
        THEN [result |-> checked, rows |-> cmts]
      ELSE IF ~ArticleExists(arts, ParseInt(id))
        THEN [result |-> Failure("NotFound", "Article"), rows |-> cmts]
      ELSE LET comment == [comment_id |-> Len(cmts) + 1, body |-> checked.value.body,
                           article_id |-> ParseInt(id),
                           author |-> checked.value.author,
                           votes |-> 0, created_at |-> now]
           IN  [result |-> Success(comment), rows |-> Append(cmts, comment)]

ArticleFields == <<"title", "topic", "author", "body">>

\* INSERT INTO articles ... RETURNING *, stamped now.  A topic the store does
\* not know violates the foreign key; the failure is reclassified as fkKind.
createArticle(arts, payload, now, fkKind) ==
  IF \E i \in 1..4 : IsMissing(Get(payload, ArticleFields[i]))
    THEN [result |-> Failure("InvalidPostInput", "article"), rows |-> arts]
  ELSE IF \E i \in 1..4 : ~IsString(Get(payload, ArticleFields[i]))
    THEN [result |-> Failure("InvalidPostDataType", "article"), rows |-> arts]
  ELSE IF payload.topic.s \notin TopicSlugs
    THEN [result |-> Failure(fkKind, "Topic"), rows |-> arts]
  ELSE LET article == [article_id |-> Len(arts) + 1, title |-> payload.title.s,
                       topic |-> payload.topic.s, author |-> payload.author.s,
                       body |-> payload.body.s, created_at |-> now, votes |-> 0]
       IN  [result |-> Success(article), rows |-> Append(arts, article)]

----------------------------------------------------------------------------
(* 4.8 Error translator: one mapping from failure kind to status and body *)

NotFoundMsg(what) ==
  CASE what = "Article" -> "Article not found"
    [] what = "Topic" -> "Topic not found"
    [] OTHER -> "Not found"

handleError(err) ==
  CASE err.kind = "InvalidInput" -> [status |-> 400, body |-> [msg |-> "Invalid input"]]
    [] err.kind = "InvalidPostInput" ->
         [status |-> 400, body |-> [msg |-> "Invalid post input"]]
    [] err.kind = "InvalidPostDataType" ->
         [status |-> 400, body |-> [msg |-> "Invalid post data type"]]
    [] err.kind = "NotFound" -> [status |-> 404, body |-> [msg |-> NotFoundMsg(err.what)]]
    [] OTHER -> [status |-> 500, body |-> [msg |-> "Internal server error"]]

----------------------------------------------------------------------------
(* Requests a client can send *)

EmptyObject == <<>>

IdInputs == { <<"1">>, <<"2">>, <<"3">>, <<"x">>, <<"1", ";">> }

QueryInputs ==
  { EmptyObject,
    [topic |-> Str("mitch")], [topic |-> Str("paper")], [topic |-> Str("nope")],
    [sort_by |-> Str("votes")], [sort_by |-> Str("bad"), topic |-> Str("nope")],
    [order |-> Str("ASC")], [order |-> Str("bad"), topic |-> Str("mitch")] }

WrongKeyBody == [votes |-> Num(1)]
WrongTypeBody == [inc_votes |-> Str("not-a-valid-value")]

\* (identifier, body) pairs of the vote updates
PatchInputs ==
  ({ <<"1">>, <<"3">> } \X { [inc_votes |-> Num(1)], [inc_votes |-> Num(-1)] })
  \cup ({ <<"1">> } \X { [inc_votes |-> Num(2)], [inc_votes |-> Num(-2)],
                         [inc_votes |-> NumHalf(1)], WrongTypeBody, WrongKeyBody })
  \cup ({ <<"2">> } \X { [inc_votes |-> Num(1)] })
  \cup ({ <<"3">> } \X { WrongKeyBody })
  \cup ({ <<"x">> } \X { [inc_votes |-> Num(1)], WrongTypeBody, WrongKeyBody })
  \cup ({ <<"1", ";">> } \X { [inc_votes |-> Num(1)] })

ValidComment == [username |-> Str("icellusedkars"), body |-> Str("text")]
MisspelledComment == [usario |-> Str("icellusedkars"), body |-> Str("text")]
WrongTypeComment == [username |-> Num(1), body |-> Str("text")]

\* (identifier, payload) pairs of the comment creations
CommentInputs ==
  ({ <<"1">>, <<"2">>, <<"3">> } \X { ValidComment })
  \cup ({ <<"1">> } \X { MisspelledComment, [username |-> Str("icellusedkars")],
                         WrongTypeComment, [username |-> Num(1)] })
  \cup ({ <<"3">> } \X { MisspelledComment })
  \cup ({ <<"x">> } \X { ValidComment, MisspelledComment, WrongTypeComment })
  \cup ({ <<"1", ";">> } \X { ValidComment })

ArticlePayloads ==
  { [title |-> Str("New"), topic |-> Str("paper"), author |-> Str("rogersop"),
     body |-> Str("text")],
    [topic |-> Str("paper"), author |-> Str("rogersop"), body |-> Str("text")],
    [title |-> Str("New"), topic |-> Str("nope"), author |-> Str("rogersop"),
     body |-> Str("text")] }

Request(route, params, query, body) ==
  [route |-> route, params |-> params, query |-> query, body |-> body]

Requests ==
  {Request("GET /api/articles", EmptyObject, q, EmptyObject) : q \in QueryInputs}
  \cup {Request("GET /api/articles/:article_id", [article_id |-> id], EmptyObject,
                EmptyObject) : id \in IdInputs}
  \cup {Request("PATCH /api/articles/:article_id", [article_id |-> x[1]], EmptyObject,
                x[2]) : x \in PatchInputs}
  \cup {Request("GET /api/articles/:article_id/comments", [article_id |-> id],
                EmptyObject, EmptyObject) : id \in IdInputs}
  \cup {Request("POST /api/articles/:article_id/comments", [article_id |-> x[1]],
                EmptyObject, x[2]) : x \in CommentInputs}
  \cup {Request("POST /api/articles", EmptyObject, EmptyObject, b) :
                b \in ArticlePayloads}

NoRequest == Request("none", EmptyObject, EmptyObject, EmptyObject)
NoResponse == [status |-> 0, body |-> EmptyObject]
NoLocal == 0

\* a foreign-key failure is reclassified as one of these kinds
FkFailureKinds == {"NotFound", "InvalidInput"}

Respond(status, body) == [status |-> status, body |-> body]

----------------------------------------------------------------------------
(* Initial state: the seeded store, no request in flight *)

Init ==
  /\ articles = SeedArticles
  /\ comments = SeedComments
  /\ pc = [r \in Reqs |-> "idle"]
  /\ req = [r \in Reqs |-> NoRequest]
  /\ local = [r \in Reqs |-> NoLocal]
  /\ res = [r \in Reqs |-> NoResponse]

\* a request arrives and its handler is entered; slots are taken in order
Receive(r) ==
  /\ pc[r] = "idle"
  /\ IF r = 1 THEN TRUE ELSE pc[r - 1] /= "idle"
  /\ \E request \in Requests : req' = [req EXCEPT ![r] = request]
  /\ pc' = [pc EXCEPT ![r] = "pending"]
  /\ UNCHANGED <<articles, comments, local, res>>

Pending(r, route) == pc[r] = "pending" /\ req[r].route = route

Finish(r, response) ==
  /\ res' = [res EXCEPT ![r] = response]
  /\ pc' = [pc EXCEPT ![r] = "done"]

----------------------------------------------------------------------------
(* controllers/articles-controllers.js *)

\* the topic filter is not passed on
getArticlesArgsNoTopic(request) ==
  <<Get(request.query, "sort_by"), Get(request.query, "order"), Undefined>>

\* const { sort_by: sort, order = "asc", topic } = req.query
getArticlesArgsAscending(request) ==
  <<Get(request.query, "sort_by"),
    IF IsMissing(Get(request.query, "order")) THEN Str("asc")
    ELSE Get(request.query, "order"),
    Get(request.query, "topic")>>

\* const { sort_by: sort, order, topic } = req.query
getArticlesArgs(request) ==
  <<Get(request.query, "sort_by"), Get(request.query, "order"),
    Get(request.query, "topic")>>

getArticles(r) ==
  /\ Pending(r, "GET /api/articles")
  /\ LET args == getArticlesArgs(req[r])
         out == fetchAllArticles(articles, comments, args[1], args[2], args[3])
     IN  Finish(r, IF out.ok THEN Respond(200, [articles |-> out.value])
                   ELSE handleError(out))
  /\ UNCHANGED <<articles, comments, local, req>>

\* the catch block answers by itself instead of forwarding to the translator
getArticleByIdUnhandled(r) ==
  /\ Pending(r, "GET /api/articles/:article_id")
  /\ LET out == fetchArticle(articles, comments, req[r].params.article_id)
     IN  Finish(r, IF out.ok THEN Respond(200, [article |-> out.value])
                   ELSE Respond(500, [msg |-> "Internal server error"]))
  /\ UNCHANGED <<articles, comments, local, req>>

getArticleById(r) ==
  /\ Pending(r, "GET /api/articles/:article_id")
  /\ LET out == fetchArticle(articles, comments, req[r].params.article_id)
     IN  Finish(r, IF out.ok THEN Respond(200, [article |-> out.value])
                   ELSE handleError(out))
  /\ UNCHANGED <<articles, comments, local, req>>

RECURSIVE LeadingDigits(_)
LeadingDigits(s) ==
  IF s = <<>> \/ ~IsDigit(Head(s)) THEN <<>>
  ELSE <<Head(s)>> \o LeadingDigits(Tail(s))

\* the identifier goes through parseInt, which stops at the first non-digit
patchArticleByIdArgsParsed(request) ==
  <<LeadingDigits(request.params.article_id), Get(request.body, "inc_votes")>>

\* const { inc_votes: number = 1 } = req.body
patchArticleByIdArgsDefault(request) ==
  <<request.params.article_id,
    IF IsMissing(Get(request.body, "inc_votes")) THEN Num(1)
    ELSE Get(request.body, "inc_votes")>>

\* const { inc_votes: number } = req.body; const { article_id: id } = req.params
patchArticleByIdArgs(request) ==
  <<request.params.article_id, Get(request.body, "inc_votes")>>

\* the same handler written as a read followed by a write: two round trips
patchArticleByIdReadThenWrite(r) ==
  \/ /\ Pending(r, "PATCH /api/articles/:article_id")
     /\ LET id == req[r].params.article_id
            number == Get(req[r].body, "inc_votes")
            out == updateArticleById(articles, id, number)
        IN  IF out.result.ok
              THEN /\ local' = [local EXCEPT ![r] = articles[ParseInt(id)].votes]
                   /\ pc' = [pc EXCEPT ![r] = "read"]
                   /\ UNCHANGED res
              ELSE /\ Finish(r, handleError(out.result))
                   /\ UNCHANGED local
     /\ UNCHANGED <<articles, comments, req>>
  \/ /\ pc[r] = "read"
     /\ LET n == ParseInt(req[r].params.article_id)
            updated == [articles[n] EXCEPT !.votes = local[r] + req[r].body.inc_votes.n]
        IN  /\ articles' = [articles EXCEPT ![n] = updated]
            /\ Finish(r, Respond(200, [article |-> updated]))
     /\ UNCHANGED <<comments, local, req>>

\* the response carries the row as it was read before the update
patchArticleByIdStale(r) ==
  /\ Pending(r, "PATCH /api/articles/:article_id")
  /\ LET id == req[r].params.article_id
         out == updateArticleById(articles, id, Get(req[r].body, "inc_votes"))
     IN  /\ articles' = out.rows
         /\ Finish(r, IF out.result.ok
                        THEN Respond(200, [article |-> articles[ParseInt(id)]])
                      ELSE handleError(out.result))
  /\ UNCHANGED <<comments, local, req>>

patchArticleById(r) ==
  /\ Pending(r, "PATCH /api/articles/:article_id")
  /\ LET args == patchArticleByIdArgs(req[r])
         out == updateArticleById(articles, args[1], args[2])
     IN  /\ articles' = out.rows
         /\ Finish(r, IF out.result.ok THEN Respond(200, [article |-> out.result.value])
                      ELSE handleError(out.result))
  /\ UNCHANGED <<comments, local, req>>

\* first await of postArticle: the insert
postArticleInsert(r) ==
  /\ Pending(r, "POST /api/articles")
  /\ \E now \in Clock(articles, comments), fkKind \in FkFailureKinds :
       LET out == createArticle(articles, req[r].body, now, fkKind)
       IN  /\ articles' = out.rows
           /\ IF out.result.ok
                THEN /\ local' = [local EXCEPT ![r] = out.result.value.article_id]
                     /\ pc' = [pc EXCEPT ![r] = "inserted"]
                     /\ UNCHANGED res
                ELSE /\ Finish(r, handleError(out.result))
                     /\ UNCHANGED local
  /\ UNCHANGED <<comments, req>>

\* the re-fetch asks for the latest article instead of the one inserted
postArticleFetchIdLatest(r) == ToText(Len(articles))

\* the identifier handed to the re-fetch: the article_id the insert returned
postArticleFetchId(r) == ToText(local[r])

\* second await of postArticle: the re-fetch, then the response
postArticleFetch(r) ==
  /\ pc[r] = "inserted"
  /\ LET out == fetchArticle(articles, comments, postArticleFetchId(r))
     IN  Finish(r, IF out.ok THEN Respond(201, [article |-> out.value])
                   ELSE handleError(out))
  /\ UNCHANGED <<articles, comments, local, req>>

----------------------------------------------------------------------------
(* comment routes *)

getCommentsByArticleId(r) ==
  /\ Pending(r, "GET /api/articles/:article_id/comments")
  /\ LET out == fetchCommentsByArticleId(articles, comments, req[r].params.article_id)
     IN  Finish(r, IF out.ok THEN Respond(200, [comments |-> out.value])
                   ELSE handleError(out))
  /\ UNCHANGED <<articles, comments, local, req>>

postComment(r) ==
  /\ Pending(r, "POST /api/articles/:article_id/comments")
  /\ \E now \in Clock(articles, comments) :
       LET out == createComment(articles, comments, req[r].params.article_id,
                                req[r].body, now)
       IN  /\ comments' = out.rows
           /\ Finish(r, IF out.result.ok THEN Respond(201, out.result.value)
                        ELSE handleError(out.result))
  /\ UNCHANGED <<articles, local, req>>

----------------------------------------------------------------------------

Next ==
  \E r \in Reqs :
    \/ Receive(r)
    \/ getArticles(r)
    \/ getArticleById(r)
    \/ patchArticleById(r)
    \/ postArticleInsert(r)
    \/ postArticleFetch(r)
    \/ getCommentsByArticleId(r)
    \/ postComment(r)

Spec == Init /\ [][Next]_vars

----------------------------------------------------------------------------
(* Vocabulary of the properties *)

GetArticles == "GET /api/articles"
GetArticle == "GET /api/articles/:article_id"
PatchArticle == "PATCH /api/articles/:article_id"
GetComments == "GET /api/articles/:article_id/comments"
PostComment == "POST /api/articles/:article_id/comments"
PostArticle == "POST /api/articles"

IdRoutes == {GetArticle, PatchArticle, GetComments, PostComment}

Done(r) == pc[r] = "done"

\* request r is answered in this step
Answered(r) == pc[r] /= "done" /\ pc'[r] = "done"

IdOf(r) == req[r].params.article_id

DigitChars == {"0", "1", "2", "3", "4", "5", "6", "7", "8", "9"}

\* non-numeric, or with injection-style characters
Malformed(id) == id = <<>> \/ \E i \in 1..Len(id) : id[i] \notin DigitChars

WellFormed(id) == ~Malformed(id) /\ ParseInt(id) > 0

\* the article a well-formed identifier names, when the store holds it
Present(id) == ParseInt(id) \in 1..Len(articles)

IntegerDelta(body) ==
  /\ "inc_votes" \in DOMAIN body
  /\ body.inc_votes.t = "number"
  /\ body.inc_votes.half = 0

ValidBodyFor(r) ==
  CASE req[r].route = PatchArticle -> IntegerDelta(req[r].body)
    [] req[r].route = PostComment -> req[r].body = ValidComment
    [] OTHER -> TRUE

Is(response, status, msg) ==
  /\ response.status = status
  /\ response.body = [msg |-> msg]

InitialVotes(a) == IF a <= Len(SeedArticles) THEN SeedArticles[a].votes ELSE 0

\* the answered vote updates with an integer delta that name article a
Patches(a) ==
  {r \in Reqs : /\ Done(r)
                /\ req[r].route = PatchArticle
                /\ WellFormed(IdOf(r))
                /\ ParseInt(IdOf(r)) = a
                /\ IntegerDelta(req[r].body)}

Applied(a) == {r \in Patches(a) : res[r].status = 200}

PatchInFlight(a) ==
  \E r \in Reqs : /\ ~Done(r)
                  /\ req[r].route = PatchArticle
                  /\ WellFormed(IdOf(r))
                  /\ ParseInt(IdOf(r)) = a

Delta(r) == req[r].body.inc_votes.n

RECURSIVE SumDeltas(_)
SumDeltas(S) ==
  IF S = {} THEN 0
  ELSE LET r == CHOOSE x \in S : TRUE IN Delta(r) + SumDeltas(S \ {r})

\* the orders in which the updates of S can have been applied
Orders(S) ==
  {f \in [1..Cardinality(S) -> S] :
     \A i, j \in 1..Cardinality(S) : i /= j => f[i] /= f[j]}

----------------------------------------------------------------------------
(* C1: concurrent vote updates with integer deltas on one existing article  *)
(* lose no delta.  Each is answered 200; once none is in flight the stored  *)
(* votes are the initial votes plus the sum of all deltas; and the updates  *)
(* can be put in an order in which every response carries the votes its own *)
(* update produced (the votes left by its predecessors plus its delta).     *)
C1_NoLostUpdate ==
  \A a \in 1..Len(articles) :
    /\ a <= Len(SeedArticles) => Applied(a) = Patches(a)
    /\ \A r \in Patches(a) \ Applied(a) : Is(res[r], 404, "Article not found")
    /\ ~PatchInFlight(a) =>
         articles[a].votes = InitialVotes(a) + SumDeltas(Applied(a))
    /\ \E f \in Orders(Applied(a)) :
         \A k \in 1..Cardinality(Applied(a)) :
           /\ res[f[k]].body.article.article_id = a
           /\ res[f[k]].body.article.votes =
                InitialVotes(a) + SumDeltas({f[j] : j \in 1..k})

\* two updates of article 1 (initial votes 1) by 1 and by 2 are both applied
C1_Witness ==
  \E r1, r2 \in Reqs :
    /\ r1 /= r2
    /\ Applied(1) = {r1, r2}
    /\ Delta(r1) = 1 /\ Delta(r2) = 2
    /\ res[r1].body.article.votes = 4
    /\ res[r2].body.article.votes = 3
    /\ articles[1].votes = 4

----------------------------------------------------------------------------
(* C2: on every identifier-taking route a malformed article identifier is   *)
(* answered 400 "Invalid input", whatever the request body is: the           *)
(* identifier check comes before every other validation.                    *)
C2_MalformedIdFirst ==
  \A r \in Reqs :
    Done(r) /\ req[r].route \in IdRoutes /\ Malformed(IdOf(r))
      => Is(res[r], 400, "Invalid input")

\* a vote update without inc_votes and a comment with a misspelled key, both
\* on a malformed identifier, are answered "Invalid input"
C2_Witness ==
  \E r1, r2 \in Reqs :
    /\ Done(r1) /\ req[r1].route = PatchArticle
    /\ IdOf(r1) = <<"x">> /\ req[r1].body = WrongKeyBody
    /\ Is(res[r1], 400, "Invalid input")
    /\ Done(r2) /\ req[r2].route = PostComment
    /\ IdOf(r2) = <<"x">> /\ req[r2].body = MisspelledComment
    /\ Is(res[r2], 400, "Invalid input")

(* C3: a well-formed identifier of an article the store does not hold, with *)
(* an otherwise valid body, is answered 404 "Article not found" on each of   *)
(* the four identifier-taking routes, and the step leaves the store as it    *)
(* was.                                                                      *)
C3_UnknownArticle ==
  [][\A r \in Reqs :
       ( /\ Answered(r)
         /\ req[r].route \in IdRoutes
         /\ WellFormed(IdOf(r))
         /\ ~Present(IdOf(r))
         /\ ValidBodyFor(r) )
       => /\ Is(res'[r], 404, "Article not found")
          /\ articles' = articles
          /\ comments' = comments]_vars

\* a vote update and a comment creation on the unknown article 3, both
\* answered 404, with the seeded store untouched
C3_Witness ==
  \E r1, r2 \in Reqs :
    /\ Done(r1) /\ req[r1].route = PatchArticle
    /\ IdOf(r1) = <<"3">> /\ IntegerDelta(req[r1].body)
    /\ Is(res[r1], 404, "Article not found")
    /\ Done(r2) /\ req[r2].route = PostComment
    /\ IdOf(r2) = <<"3">> /\ req[r2].body = ValidComment
    /\ Is(res[r2], 404, "Article not found")
    /\ articles = SeedArticles
    /\ comments = SeedComments

CommentsOf(n) == {i \in 1..Len(comments) : comments[i].article_id = n}

(* C4: the comment listing of a well-formed identifier is answered by the   *)
(* article's existence alone: 200 with exactly the article's comments (the   *)
(* empty list when it has none) when the article exists, 404 "Article not    *)
(* found" when it does not.                                                  *)
C4_CommentsOfExistingArticle ==
  [][\A r \in Reqs :
       ( /\ Answered(r)
         /\ req[r].route = GetComments
         /\ WellFormed(IdOf(r)) )
       => IF Present(IdOf(r))
            THEN /\ res'[r].status = 200
                 /\ DOMAIN res'[r].body = {"comments"}
                 /\ Len(res'[r].body.comments) = Cardinality(CommentsOf(ParseInt(IdOf(r))))
                 /\ \A k \in 1..Len(res'[r].body.comments) :
                      res'[r].body.comments[k].article_id = ParseInt(IdOf(r))
            ELSE Is(res'[r], 404, "Article not found")]_vars

\* article 2 exists without comments: 200 and the empty list; article 3 does
\* not exist: 404
C4_Witness ==
  \E r1, r2 \in Reqs :
    /\ Done(r1) /\ req[r1].route = GetComments /\ IdOf(r1) = <<"2">>
    /\ CommentsOf(2) = {}
    /\ res[r1].status = 200 /\ res[r1].body.comments = <<>>
    /\ Done(r2) /\ req[r2].route = GetComments /\ IdOf(r2) = <<"3">>
    /\ Is(res[r2], 404, "Article not found")

CommentFields == {"username", "body"}

MissingField(payload) == \E k \in CommentFields : k \notin DOMAIN payload

WrongType(payload) ==
  \E k \in CommentFields : k \in DOMAIN payload /\ payload[k].t /= "string"

(* C5: a comment creation on an existing article with a well-formed id is   *)
(* answered 400 "Invalid post input" when a required field is missing, and   *)
(* 400 "Invalid post data type" when both fields are present and one has the *)
(* wrong type; the two messages differ and neither case inserts a comment.   *)
C5_CommentPayload ==
  [][\A r \in Reqs :
       ( /\ Answered(r)
         /\ req[r].route = PostComment
         /\ WellFormed(IdOf(r))
         /\ Present(IdOf(r)) )
       => /\ MissingField(req[r].body) =>
               /\ Is(res'[r], 400, "Invalid post input")
               /\ comments' = comments
          /\ ~MissingField(req[r].body) /\ WrongType(req[r].body) =>
               /\ Is(res'[r], 400, "Invalid post data type")
               /\ ~Is(res'[r], 400, "Invalid post input")
               /\ comments' = comments]_vars

\* a misspelled key and a numeric username on article 1, each with its own
\* message, and no comment added to the seeded one
C5_Witness ==
  \E r1, r2 \in Reqs :
    /\ Done(r1) /\ req[r1].route = PostComment /\ IdOf(r1) = <<"1">>
    /\ req[r1].body = MisspelledComment
    /\ Is(res[r1], 400, "Invalid post input")
    /\ Done(r2) /\ req[r2].route = PostComment /\ IdOf(r2) = <<"1">>
    /\ req[r2].body = WrongTypeComment
    /\ Is(res[r2], 400, "Invalid post data type")
    /\ comments = SeedComments

ArticlesOfTopic(t) == {a \in 1..Len(articles) : articles[a].topic = t}

ListedIds(list) == {list[k].article_id : k \in 1..Len(list)}

(* C6: a listing filtered by topic (no sort_by, no order): an existing topic *)
(* gives 200 with exactly the articles of that topic, each once (none when   *)
(* the topic has no article); a topic that does not exist gives 404.  With   *)
(* any sort_by and order, a topic that does not exist never gives 200.       *)
C6_TopicFilter ==
  [][\A r \in Reqs :
       ( /\ Answered(r)
         /\ req[r].route = GetArticles
         /\ "topic" \in DOMAIN req[r].query )
       => LET t == req[r].query.topic.s
              plain == DOMAIN req[r].query = {"topic"}
          IN  IF t \in TopicSlugs
                THEN plain =>
                       /\ res'[r].status = 200
                       /\ ListedIds(res'[r].body.articles) = ArticlesOfTopic(t)
                       /\ Len(res'[r].body.articles) = Cardinality(ArticlesOfTopic(t))
                ELSE /\ res'[r].status /= 200
                     /\ plain => res'[r].status = 404]_vars

\* topic paper exists and has no article: 200 and the empty list; topic nope
\* does not exist: 404
C6_Witness ==
  \E r1, r2 \in Reqs :
    /\ Done(r1) /\ req[r1].route = GetArticles
    /\ req[r1].query = [topic |-> Str("paper")]
    /\ res[r1].status = 200 /\ res[r1].body.articles = <<>>
    /\ Done(r2) /\ req[r2].route = GetArticles
    /\ req[r2].query = [topic |-> Str("nope")]
    /\ res[r2].status = 404

(* C7: a listing with no sort_by, order or topic is answered 200 with every *)
(* article of the store exactly once, newest first, articles of equal        *)
(* created_at by ascending article_id (so the sequence is determined by the  *)
(* store state), each row carrying its stored votes and a comment_count that *)
(* reads as the number of comments referencing it at that time.              *)
C7_DefaultListing ==
  [][\A r \in Reqs :
       ( /\ Answered(r)
         /\ req[r].route = GetArticles
         /\ DOMAIN req[r].query = {} )
       => /\ res'[r].status = 200
          /\ LET list == res'[r].body.articles
             IN  /\ Len(list) = Len(articles)
                 /\ ListedIds(list) = 1..Len(articles)
                 /\ \A i, j \in 1..Len(list) :
                      i < j =>
                        \/ list[i].created_at > list[j].created_at
                        \/ /\ list[i].created_at = list[j].created_at
                           /\ list[i].article_id < list[j].article_id
                 /\ \A i \in 1..Len(list) :
                      /\ list[i].created_at = articles[list[i].article_id].created_at
                      /\ list[i].votes = articles[list[i].article_id].votes
                      /\ ParseInt(list[i].comment_count)
                           = Cardinality(CommentsOf(list[i].article_id))]_vars

\* a later article 3 is listed first, then the seeded articles 1 and 2, which
\* share a created_at, by article_id; article 1 counts its comment
C7_Witness ==
  \E r \in Reqs :
    /\ Done(r) /\ req[r].route = GetArticles /\ DOMAIN req[r].query = {}
    /\ res[r].status = 200
    /\ Len(res[r].body.articles) = 3
    /\ res[r].body.articles[1].article_id = 3
    /\ res[r].body.articles[2].article_id = 1
    /\ res[r].body.articles[3].article_id = 2
    /\ res[r].body.articles[2].comment_count = <<"1">>
    /\ res[r].body.articles[3].comment_count = <<"0">>

(* C8: a vote update of an existing article with a well-formed id whose     *)
(* inc_votes is missing (absent or under another key) or not an integer is   *)
(* answered 400 "Invalid input" and leaves the stored votes unchanged.       *)
C8_InvalidDelta ==
  [][\A r \in Reqs :
       ( /\ Answered(r)
         /\ req[r].route = PatchArticle
         /\ WellFormed(IdOf(r))
         /\ Present(IdOf(r))
         /\ ~IntegerDelta(req[r].body) )
       => /\ Is(res'[r], 400, "Invalid input")
          /\ articles' = articles]_vars

\* inc_votes under another key and inc_votes 1.5 on article 1: both 400, the
\* votes still the seeded ones
C8_Witness ==
  \E r1, r2 \in Reqs :
    /\ Done(r1) /\ req[r1].route = PatchArticle /\ IdOf(r1) = <<"1">>
    /\ req[r1].body = WrongKeyBody
    /\ Is(res[r1], 400, "Invalid input")
    /\ Done(r2) /\ req[r2].route = PatchArticle /\ IdOf(r2) = <<"1">>
    /\ req[r2].body = [inc_votes |-> NumHalf(1)]
    /\ Is(res[r2], 400, "Invalid input")
    /\ articles = SeedArticles

(* C9: when the only vote updates applied to an article are one by d > 0    *)
(* and one by -d, the stored votes are the original ones again and the       *)
(* response of the later update carries the original votes: either d came    *)
(* first (its response original + d, the other's original) or -d did.        *)
C9_RoundTrip ==
  \A a \in 1..Len(articles) :
    \A r1, r2 \in Applied(a) :
      ( /\ Applied(a) = {r1, r2}
        /\ ~PatchInFlight(a)
        /\ Delta(r1) > 0
        /\ Delta(r2) = -Delta(r1) )
      => /\ articles[a].votes = InitialVotes(a)
         /\ \/ /\ res[r1].body.article.votes = InitialVotes(a) + Delta(r1)
               /\ res[r2].body.article.votes = InitialVotes(a)
            \/ /\ res[r2].body.article.votes = InitialVotes(a) - Delta(r1)
               /\ res[r1].body.article.votes = InitialVotes(a)

\* article 1 (votes 1): +2 answered 3, then -2 answered 1
C9_Witness ==
  \E r1, r2 \in Reqs :
    /\ Applied(1) = {r1, r2}
    /\ Delta(r1) = 2 /\ Delta(r2) = -2
    /\ res[r1].body.article.votes = 3
    /\ res[r2].body.article.votes = 1
    /\ articles[1].votes = 1

(* C10 as amended: the create-article handler makes two data-access calls   *)
(* in sequence.  A failed insert is answered by the error translator with    *)
(* the store unchanged and no re-fetch; a successful insert appends the      *)
(* article of the payload and is followed by the re-fetch of the article_id  *)
(* it returned, which is the only way to a 201.  The 201 carries that        *)
(* article with the comment count computed at re-fetch time: the number of   *)
(* comments referencing it then, zero when none was created in between.      *)
C10_InsertThenRefetch ==
  [][\A r \in Reqs :
       req[r].route = PostArticle =>
         /\ pc[r] = "pending" /\ pc'[r] = "inserted" =>
              /\ articles' = Append(articles, articles'[Len(articles) + 1])
              /\ local'[r] = Len(articles) + 1
              /\ articles'[local'[r]].article_id = local'[r]
              /\ articles'[local'[r]].title = req[r].body.title.s
              /\ articles'[local'[r]].topic = req[r].body.topic.s
              /\ articles'[local'[r]].votes = 0
              /\ res'[r] = NoResponse
         /\ pc[r] = "pending" /\ pc'[r] = "done" =>
              /\ res'[r].status \in {400, 404}
              /\ articles' = articles
         /\ pc[r] = "inserted" /\ pc'[r] = "done" =>
              /\ res'[r].status = 201
              /\ res'[r].body.article.article_id = local[r]
              /\ res'[r].body.article.title = req[r].body.title.s
              /\ res'[r].body.article.topic = req[r].body.topic.s
              /\ ParseInt(res'[r].body.article.comment_count)
                   = Cardinality(CommentsOf(local[r]))
              /\ articles' = articles /\ comments' = comments
         /\ Answered(r) /\ res'[r].status = 201 => pc[r] = "inserted"]_vars

\* a comment on the new article 3 was created between the insert and the
\* re-fetch: the 201 carries article 3 with comment_count "1"
C10_Witness ==
  \E r \in Reqs :
    /\ Done(r) /\ req[r].route = PostArticle
    /\ res[r].status = 201
    /\ res[r].body.article.article_id = 3
    /\ res[r].body.article.comment_count = <<"1">>

\* C10 as stated: every 201 of the create-article handler carries the newly
\* inserted article with a comment count of zero
C10_AlwaysZeroComments ==
  \A r \in Reqs :
    Done(r) /\ req[r].route = PostArticle /\ res[r].status = 201
      => /\ res[r].body.article.article_id = local[r]
         /\ ParseInt(res[r].body.article.comment_count) = 0

====
